---- MODULE Spec2Model ----
(***************************************************************************)
(* cargo-symbols, src/main.rs: the streaming JSON scanner (JsonScanner),   *)
(* the extraction automaton (get_dependencies) and the process glue        *)
(* (real_main, main) around them.                                          *)
(*                                                                         *)
(* A text is a sequence of one-character strings.  The scanner's cursor cs *)
(* is the number of characters already taken from the buffer.              *)
(***************************************************************************)
EXTENDS Integers, Sequences, FiniteSets, TLC

VARIABLES
  arg,          \* real_main: the optional command-line argument (sample_file)
  env,          \* what the file system / the spawned command will answer
  metadata,     \* real_main: the acquired buffer
  err,          \* real_main: the Err it returns, as its Display text
  pc,           \* position in the program
  cs,           \* JsonScanner.cs: characters consumed so far
  event,        \* the loop variable of `for event in scanner`
  dp, tp_lvl, pkg, pkg_lst, pkg_lst_itm, mnfst,   \* get_dependencies' locals
  dependencies, \* get_dependencies' result vector
  printed,      \* real_main: how many dependencies its loop has printed
  stdout,       \* the lines written by println!
  stderr,       \* the texts written by eprintln! (and by the panic hook)
  code,         \* the process exit code, -1 while running
  run,          \* which call of get_dependencies this is (1, or 2 in SpecTwice)
  prev,         \* SpecTwice: what the first call printed and returned
  events,       \* history: the events the extractor loop has consumed in this call
  input         \* ghost: how the buffer was built (the document tree, its layout)

vars == <<arg, env, metadata, err, pc, cs, event, dp, tp_lvl, pkg, pkg_lst,
          pkg_lst_itm, mnfst, dependencies, printed, stdout, stderr, code,
          run, prev, events, input>>

(***************************************************************************)
(* Characters and the two key names                                        *)
(***************************************************************************)
LBrace == "{"
RBrace == "}"
LBrack == "["
RBrack == "]"
Quote == "\""
Backslash == "\\"
Colon == ":"
Comma == ","
Space == " "
Newline == "\n"

PACKAGES == <<"p", "a", "c", "k", "a", "g", "e", "s">>
MANIFEST_PATH == <<"m", "a", "n", "i", "f", "e", "s", "t", "_", "p", "a", "t", "h">>

(***************************************************************************)
(* enum JsonEvent                                                          *)
(***************************************************************************)
EnterObj == [type |-> "EnterObj", text |-> <<>>]
ExitObj == [type |-> "ExitObj", text |-> <<>>]
EnterList == [type |-> "EnterList", text |-> <<>>]
ExitList == [type |-> "ExitList", text |-> <<>>]
Entry(s) == [type |-> "Entry", text |-> s]
Str(s) == [type |-> "Str", text |-> s]
NoEvent == [type |-> "none", text |-> <<>>]

IsEnter(ev) == ev.type \in {"EnterObj", "EnterList"}
IsExit(ev) == ev.type \in {"ExitObj", "ExitList"}

(***************************************************************************)
(* JsonScanner::next.  The answer is Some(ev), None, or the panic of       *)
(* `self.cs.next().unwrap()` on an exhausted iterator; cs is the cursor    *)
(* the call leaves behind.  peek() does not move the cursor.               *)
(***************************************************************************)
Some(ev, i) == [ret |-> "Some", ev |-> ev, cs |-> i]
\* A variant of None for a scanner that rewinds when its stream ends.
NoneRewinds(i) == [ret |-> "None", ev |-> NoEvent, cs |-> 0]
None(i) == [ret |-> "None", ev |-> NoEvent, cs |-> i]
Panic(i) == [ret |-> "panic", ev |-> NoEvent, cs |-> i]

Peek(src, i) == IF i < Len(src) THEN src[i + 1] ELSE ""

\* A variant of Escape that keeps the backslash but does not take the
\* character after it, so that an escaped quote closes the literal.
EscapeBackslashOnly(src, i, buf) ==
  IF i + 1 >= Len(src) THEN [stop |-> TRUE, cs |-> i + 1, buf |-> buf]
  ELSE [stop |-> FALSE, cs |-> i + 1, buf |-> Append(buf, src[i + 1])]

\* '\\' => { str_buf.push(c); str_buf.push(self.cs.next().unwrap()) }
\* i characters are consumed and src[i + 1] is the backslash
Escape(src, i, buf) ==
  IF i + 1 >= Len(src) THEN [stop |-> TRUE, cs |-> i + 1, buf |-> buf]
  ELSE [stop |-> FALSE, cs |-> i + 2, buf |-> buf \o <<src[i + 1], src[i + 2]>>]

\* A variant of Classify that looks past one space for the colon.
ClassifyPastSpace(src, i, buf) ==
  IF Peek(src, i) = Colon \/ (Peek(src, i) = Space /\ Peek(src, i + 1) = Colon)
    THEN Entry(buf) ELSE Str(buf)

\* '"' => match self.cs.peek() { Some(':') => Entry, _ => Str }
Classify(src, i, buf) ==
  IF Peek(src, i) = Colon THEN Entry(buf) ELSE Str(buf)

RECURSIVE ScanStr(_, _, _)
ScanStr(src, i, buf) ==
  IF i >= Len(src) THEN None(Len(src))
  ELSE LET c == src[i + 1] IN
       IF c = Backslash
         THEN LET e == Escape(src, i, buf) IN
              IF e.stop THEN Panic(e.cs) ELSE ScanStr(src, e.cs, e.buf)
       ELSE IF c = Quote THEN Some(Classify(src, i + 1, buf), i + 1)
       ELSE ScanStr(src, i + 1, Append(buf, c))

\* A variant of ScannerNext that ends the sequence at the first character
\* that starts no token, instead of skipping it.
ScannerNextStopsAtOther(src, i) ==
  IF i >= Len(src) THEN None(Len(src))
  ELSE LET c == src[i + 1] IN
       IF c = LBrace THEN Some(EnterObj, i + 1)
       ELSE IF c = RBrace THEN Some(ExitObj, i + 1)
       ELSE IF c = LBrack THEN Some(EnterList, i + 1)
       ELSE IF c = RBrack THEN Some(ExitList, i + 1)
       ELSE IF c = Quote THEN ScanStr(src, i + 1, <<>>)
       ELSE None(i + 1)

RECURSIVE ScannerNext(_, _)
ScannerNext(src, i) ==
  IF i >= Len(src) THEN None(Len(src))
  ELSE LET c == src[i + 1] IN
       IF c = LBrace THEN Some(EnterObj, i + 1)
       ELSE IF c = RBrace THEN Some(ExitObj, i + 1)
       ELSE IF c = LBrack THEN Some(EnterList, i + 1)
       ELSE IF c = RBrack THEN Some(ExitList, i + 1)
       ELSE IF c = Quote THEN ScanStr(src, i + 1, <<>>)
       ELSE ScannerNext(src, i + 1)

(***************************************************************************)
(* get_dependencies: the locals as one record, the match arms in order.    *)
(* PatNNN is the pattern (and guard) of the arm at line NNN, EffNNN its    *)
(* body; an arm is taken when it is the first whose pattern matches.       *)
(***************************************************************************)
Fresh ==
  [dp |-> 0, tp_lvl |-> FALSE, pkg |-> FALSE, pkg_lst |-> FALSE,
   pkg_lst_itm |-> FALSE, mnfst |-> FALSE, dependencies |-> <<>>]

Locals ==
  [dp |-> dp, tp_lvl |-> tp_lvl, pkg |-> pkg, pkg_lst |-> pkg_lst,
   pkg_lst_itm |-> pkg_lst_itm, mnfst |-> mnfst, dependencies |-> dependencies]

Pat128(s, ev) == s.dp = 0 /\ ~s.tp_lvl /\ ev = EnterObj
Pat130(s, ev) ==
  s.dp = 1 /\ s.tp_lvl /\ ~s.pkg /\ ev.type = "Entry" /\ ev.text = PACKAGES
Pat131(s, ev) == s.dp = 1 /\ s.tp_lvl /\ s.pkg /\ ~s.pkg_lst /\ ev = EnterList
Pat133(s, ev) ==
  s.dp = 2 /\ s.tp_lvl /\ s.pkg /\ s.pkg_lst /\ ~s.pkg_lst_itm /\ ev = EnterObj
\* A variant of Pat135 that takes the key at any depth.
Pat135AnyDepth(s, ev) ==
  /\ s.tp_lvl /\ s.pkg /\ s.pkg_lst /\ s.pkg_lst_itm
  /\ ev.type = "Entry" /\ ev.text = MANIFEST_PATH
Pat135(s, ev) ==
  /\ s.dp = 3 /\ s.tp_lvl /\ s.pkg /\ s.pkg_lst /\ s.pkg_lst_itm
  /\ ev.type = "Entry" /\ ev.text = MANIFEST_PATH
Pat136(s, ev) ==
  /\ s.dp = 3 /\ s.tp_lvl /\ s.pkg /\ s.pkg_lst /\ s.pkg_lst_itm /\ s.mnfst
  /\ ev.type = "Str"
Pat137(s, ev) ==
  s.dp = 3 /\ s.tp_lvl /\ s.pkg /\ s.pkg_lst /\ s.pkg_lst_itm /\ s.mnfst
Pat138(s, ev) == s.dp = 3 /\ s.tp_lvl /\ s.pkg /\ s.pkg_lst /\ ev = ExitObj
Pat140(s, ev) == s.dp = 2 /\ s.tp_lvl /\ s.pkg /\ ev = ExitList
Pat149(s, ev) == IsEnter(ev)
Pat150(s, ev) == IsExit(ev)

Arm(s, ev) ==
  IF Pat128(s, ev) THEN 128
  ELSE IF Pat130(s, ev) THEN 130
  ELSE IF Pat131(s, ev) THEN 131
  ELSE IF Pat133(s, ev) THEN 133
  ELSE IF Pat135(s, ev) THEN 135
  ELSE IF Pat136(s, ev) THEN 136
  ELSE IF Pat137(s, ev) THEN 137
  ELSE IF Pat138(s, ev) THEN 138
  ELSE IF Pat140(s, ev) THEN 140
  ELSE IF Pat149(s, ev) THEN 149
  ELSE IF Pat150(s, ev) THEN 150
  ELSE 151

Eff128(s, ev) == [s EXCEPT !.dp = @ + 1, !.tp_lvl = TRUE]
Eff130(s, ev) == [s EXCEPT !.pkg = TRUE]
Eff131(s, ev) == [s EXCEPT !.dp = @ + 1, !.pkg_lst = TRUE]
Eff133(s, ev) == [s EXCEPT !.dp = @ + 1, !.pkg_lst_itm = TRUE]
Eff135(s, ev) == [s EXCEPT !.mnfst = TRUE]
Eff136(s, ev) ==
  [s EXCEPT !.dependencies = Append(@, ev.text), !.mnfst = FALSE]
\* A variant of Eff137 that leaves mnfst set.
Eff137KeepsFlag(s, ev) == s
Eff137(s, ev) == [s EXCEPT !.mnfst = FALSE]
Eff138(s, ev) == [s EXCEPT !.dp = @ - 1, !.pkg_lst_itm = FALSE]
Eff140(s, ev) == [s EXCEPT !.dp = @ - 1, !.pkg = FALSE, !.pkg_lst = FALSE]
\* A variant of Eff149 that counts `{` only.
Eff149ObjOnly(s, ev) == IF ev = EnterObj THEN [s EXCEPT !.dp = @ + 1] ELSE s
Eff149(s, ev) == [s EXCEPT !.dp = @ + 1]
Eff150(s, ev) == [s EXCEPT !.dp = @ - 1]
Eff151(s, ev) == s

Eff(n, s, ev) ==
  CASE n = 128 -> Eff128(s, ev)
    [] n = 130 -> Eff130(s, ev)
    [] n = 131 -> Eff131(s, ev)
    [] n = 133 -> Eff133(s, ev)
    [] n = 135 -> Eff135(s, ev)
    [] n = 136 -> Eff136(s, ev)
    [] n = 137 -> Eff137(s, ev)
    [] n = 138 -> Eff138(s, ev)
    [] n = 140 -> Eff140(s, ev)
    [] n = 149 -> Eff149(s, ev)
    [] n = 150 -> Eff150(s, ev)
    [] OTHER -> Eff151(s, ev)

\* The whole call as a function of the buffer: the loop of lines 125-153 run
\* from cursor i and locals s to its end.  ret is "Ok" or "panic".
RECURSIVE Loop(_, _, _)
Loop(src, i, s) ==
  LET r == ScannerNext(src, i) IN
  IF r.ret = "panic" THEN [ret |-> "panic", s |-> s, cs |-> r.cs]
  ELSE IF r.ret = "None" THEN [ret |-> "Ok", s |-> s, cs |-> r.cs]
  ELSE LET n == Arm(s, r.ev) IN
       IF n = 140 THEN [ret |-> "Ok", s |-> Eff(n, s, r.ev), cs |-> r.cs]
       ELSE Loop(src, r.cs, Eff(n, s, r.ev))

get_dependencies(src) == Loop(src, 0, Fresh)

(***************************************************************************)
(* The process: real_main and main.  A line of standard output is one      *)
(* println! call: the debug lines of get_dependencies carry the formatted  *)
(* locals and event, a dependency line carries the string.                 *)
(***************************************************************************)
NoLocals ==
  [dp |-> 0, tp_lvl |-> FALSE, pkg |-> FALSE, pkg_lst |-> FALSE,
   pkg_lst_itm |-> FALSE, mnfst |-> FALSE]

Shown(s) ==
  [dp |-> s.dp, tp_lvl |-> s.tp_lvl, pkg |-> s.pkg, pkg_lst |-> s.pkg_lst,
   pkg_lst_itm |-> s.pkg_lst_itm, mnfst |-> s.mnfst]

\* println!("(dp={dp}, tp_lvl={tp_lvl}, ..., event={event:?})")
DebugLine(s, ev) == [kind |-> "debug", text |-> <<>>, s |-> Shown(s), ev |-> ev]
\* println!("early break")
BreakLine == [kind |-> "break", text |-> <<>>, s |-> NoLocals, ev |-> NoEvent]
\* println!("{dep}")
DepLine(dep) == [kind |-> "dep", text |-> dep, s |-> NoLocals, ev |-> NoEvent]

\* Bytes are characters, but for BadByte, which no UTF-8 text holds.
BadByte == "<ff>"
IoErrorText == <<"i", "o">>
Utf8ErrorText == <<"u", "t", "f", "8">>
PanicText == <<"p", "a", "n", "i", "c">>

\* String::from_utf8
FromUtf8(bytes) ==
  IF \E i \in 1..Len(bytes) : bytes[i] = BadByte
    THEN [ok |-> FALSE, text |-> Utf8ErrorText]
    ELSE [ok |-> TRUE, text |-> bytes]

\* fs::read_to_string(fpath)?: the error is an io::Error in both failures
open_metadata_file(e) ==
  IF e.io = "err" THEN [ok |-> FALSE, text |-> IoErrorText]
  ELSE IF ~FromUtf8(e.out).ok THEN [ok |-> FALSE, text |-> IoErrorText]
  ELSE [ok |-> TRUE, text |-> e.out]

\* A variant of use_cargo_metadata that does not look at the exit status.
use_cargo_metadata_any_status(e) ==
  IF e.io = "err" THEN [ok |-> FALSE, text |-> IoErrorText]
  ELSE FromUtf8(e.out)

\* Command::new("cargo")...output()?, the status check, String::from_utf8
use_cargo_metadata(e) ==
  IF e.io = "err" THEN [ok |-> FALSE, text |-> IoErrorText]
  ELSE IF e.status # 0
    THEN [ok |-> FALSE, text |-> FromUtf8(e.errout).text]
  ELSE FromUtf8(e.out)

Acquire(a, e) == IF a = "file" THEN open_metadata_file(e) ELSE use_cargo_metadata(e)

\* The number of lines a stream of eprintln! texts holds.
RECURSIVE CountNewlines(_)
CountNewlines(t) ==
  IF t = <<>> THEN 0
  ELSE (IF Head(t) = Newline THEN 1 ELSE 0) + CountNewlines(Tail(t))

RECURSIVE StreamLines(_)
StreamLines(st) ==
  IF st = <<>> THEN 0 ELSE CountNewlines(Head(st)) + StreamLines(Tail(st))

SetLocals(s) ==
  /\ dp' = s.dp
  /\ tp_lvl' = s.tp_lvl
  /\ pkg' = s.pkg
  /\ pkg_lst' = s.pkg_lst
  /\ pkg_lst_itm' = s.pkg_lst_itm
  /\ mnfst' = s.mnfst
  /\ dependencies' = s.dependencies

KeepLocals == UNCHANGED <<dp, tp_lvl, pkg, pkg_lst, pkg_lst_itm, mnfst, dependencies>>
KeepInput == UNCHANGED <<arg, env, input>>

\* real_main, lines 160-165: the buffer or the propagated error
RealMainAcquire ==
  /\ pc = "main"
  /\ LET r == Acquire(arg, env) IN
       IF r.ok
         THEN /\ metadata' = r.text
              /\ pc' = "call"
              /\ err' = err
         ELSE /\ err' = r.text
              /\ pc' = "fail"
              /\ metadata' = metadata
  /\ KeepLocals /\ KeepInput
  /\ UNCHANGED <<cs, event, printed, stdout, stderr, code, run, prev, events>>

\* A variant of Reset in which the depth survives from the call before.
ResetKeepsDepth == SetLocals([Fresh EXCEPT !.dp = dp])

\* get_dependencies, lines 101-110
Reset == SetLocals(Fresh)

GetDependenciesEnter ==
  /\ pc = "call"
  /\ Reset
  /\ cs' = 0
  /\ events' = <<>>
  /\ event' = NoEvent
  /\ pc' = "next"
  /\ KeepInput
  /\ UNCHANGED <<metadata, err, printed, stdout, stderr, code, run, prev>>

\* `for event in scanner`: one call of JsonScanner::next
ForNext ==
  /\ pc = "next"
  /\ LET r == ScannerNext(metadata, cs) IN
       /\ cs' = r.cs
       /\ \/ /\ r.ret = "Some"
             /\ event' = r.ev
             /\ pc' = "match"
             /\ UNCHANGED <<stderr, code>>
          \/ /\ r.ret = "None"
             /\ event' = NoEvent
             /\ pc' = "ret"
             /\ UNCHANGED <<stderr, code>>
          \/ /\ r.ret = "panic"
             /\ event' = NoEvent
             /\ pc' = "exit"
             /\ stderr' = Append(stderr, PanicText \o <<Newline>>)
             /\ code' = 101
  /\ KeepLocals /\ KeepInput
  /\ UNCHANGED <<metadata, err, printed, stdout, run, prev, events>>

\* One pass of the loop body: line 126, then the arm n of the match.
Take(n) ==
  /\ pc = "match"
  /\ Arm(Locals, event) = n
  /\ SetLocals(Eff(n, Locals, event))
  /\ events' = Append(events, event)
  /\ KeepInput
  /\ UNCHANGED <<metadata, err, cs, event, printed, stderr, code, run, prev>>

Continue ==
  /\ stdout' = Append(stdout, DebugLine(Locals, event))
  /\ pc' = "next"

Arm128 == Take(128) /\ Continue
Arm130 == Take(130) /\ Continue
Arm131 == Take(131) /\ Continue
Arm133 == Take(133) /\ Continue
Arm135 == Take(135) /\ Continue
Arm136 == Take(136) /\ Continue
Arm137 == Take(137) /\ Continue
Arm138 == Take(138) /\ Continue
\* lines 140-147: two more lines are printed, then `break`
Arm140 ==
  /\ Take(140)
  /\ stdout' = stdout \o <<DebugLine(Locals, event), BreakLine,
                           DebugLine(Eff140(Locals, event), ExitList)>>
  /\ pc' = "ret"
Arm149 == Take(149) /\ Continue
Arm150 == Take(150) /\ Continue
Arm151 == Take(151) /\ Continue

Match ==
  \/ Arm128 \/ Arm130 \/ Arm131 \/ Arm133 \/ Arm135 \/ Arm136
  \/ Arm137 \/ Arm138 \/ Arm140 \/ Arm149 \/ Arm150 \/ Arm151

\* line 155 and line 167: the vector goes back to real_main
Return ==
  /\ pc = "ret"
  /\ pc' = "print"
  /\ printed' = 0
  /\ KeepLocals /\ KeepInput
  /\ UNCHANGED <<metadata, err, cs, event, stdout, stderr, code, run, prev, events>>

\* lines 168-170
PrintDep ==
  /\ pc = "print"
  /\ printed < Len(dependencies)
  /\ stdout' = Append(stdout, DepLine(dependencies[printed + 1]))
  /\ printed' = printed + 1
  /\ KeepLocals /\ KeepInput
  /\ UNCHANGED <<metadata, err, pc, cs, event, stderr, code, run, prev, events>>

\* line 171, then main's exit(code)
ExitOk ==
  /\ pc = "print"
  /\ printed = Len(dependencies)
  /\ code' = 0
  /\ pc' = "exit"
  /\ KeepLocals /\ KeepInput
  /\ UNCHANGED <<metadata, err, cs, event, printed, stdout, stderr, run, prev, events>>

\* main, lines 176-181: eprintln!("{err}"); exit(1)
ExitErr ==
  /\ pc = "fail"
  /\ stderr' = Append(stderr, err \o <<Newline>>)
  /\ code' = 1
  /\ pc' = "exit"
  /\ KeepLocals /\ KeepInput
  /\ UNCHANGED <<metadata, err, cs, event, printed, stdout, run, prev, events>>

\* A second call over the same buffer, as a caller of the function may make.
CallAgain ==
  /\ pc = "ret"
  /\ run = 1
  /\ prev' = [events |-> events, lines |-> stdout, cs |-> cs,
              dependencies |-> dependencies]
  /\ run' = 2
  /\ pc' = "call"
  /\ KeepLocals /\ KeepInput
  /\ UNCHANGED <<metadata, err, cs, event, printed, stdout, stderr, code, events>>

(***************************************************************************)
(* The buffers the runs are given.  A JSON value is a tree: k is "str"     *)
(* (s its raw content), "lit" (s the literal: a number, null) or "obj" /   *)
(* "arr" (c its members; an array's members have the empty key).           *)
(***************************************************************************)
MaxItems == 2
MaxLen == 3

V(k, s, c) == [k |-> k, s |-> s, c |-> c]
M(key, val) == [key |-> key, val |-> val]
S(s) == V("str", s, <<>>)
Lit(s) == V("lit", s, <<>>)
Obj(ms) == V("obj", <<>>, ms)
Arr(vs) == V("arr", <<>>, [i \in 1..Len(vs) |-> M(<<>>, vs[i])])

One == Lit(<<"1">>)
Null == Lit(<<"n", "u", "l", "l">>)
PA == <<"/", "a">>
PB == <<"/", "b">>
PC == <<"/", "c">>
PT == <<"/", "t">>
\* the raw texts a\"b and c\\ : an escaped quote, an escaped backslash
PE == <<"a", Backslash, Quote, "b">>
PF == <<"c", Backslash, Backslash>>
KN == <<"n">>
KA == <<"a">>

\* Layouts: what is written before a colon, after a colon or comma, and
\* inside brackets.  All are legal JSON whitespace.
Layouts ==
  { [bc |-> <<>>, ac |-> <<>>, pad |-> <<>>],
    [bc |-> <<>>, ac |-> <<Space>>, pad |-> <<>>],
    [bc |-> <<Space>>, ac |-> <<Space>>, pad |-> <<>>],
    [bc |-> <<>>, ac |-> <<Space>>, pad |-> <<Newline, Space>>] }
Compact == [bc |-> <<>>, ac |-> <<>>, pad |-> <<>>]
Spaced == [bc |-> <<Space>>, ac |-> <<Space>>, pad |-> <<>>]

RECURSIVE Render(_, _)
RECURSIVE RenderAll(_, _, _)
Render(v, ws) ==
  CASE v.k = "str" -> <<Quote>> \o v.s \o <<Quote>>
    [] v.k = "lit" -> v.s
    [] v.k = "obj" ->
         <<LBrace>> \o ws.pad \o RenderAll(v.c, ws, TRUE) \o ws.pad \o <<RBrace>>
    [] v.k = "arr" ->
         <<LBrack>> \o ws.pad \o RenderAll(v.c, ws, FALSE) \o ws.pad \o <<RBrack>>
RenderAll(ms, ws, keyed) ==
  IF ms = <<>> THEN <<>>
  ELSE (IF keyed
          THEN <<Quote>> \o Head(ms).key \o <<Quote>> \o ws.bc \o <<Colon>> \o ws.ac
          ELSE <<>>)
       \o Render(Head(ms).val, ws)
       \o (IF Tail(ms) = <<>> THEN <<>>
           ELSE <<Comma>> \o ws.ac \o ws.pad \o RenderAll(Tail(ms), ws, keyed))

SeqsUpTo(set, n) == UNION {[1..k -> set] : k \in 0..n}

MP(v) == M(MANIFEST_PATH, v)

\* Elements of a packages array in which "manifest_path", where present,
\* holds a string.
ShapedItems ==
  { Obj(<<>>),
    Obj(<<MP(S(PA))>>),
    Obj(<<M(KN, S(PF)), MP(S(PC))>>),
    Obj(<<MP(S(PE))>>),
    Obj(<<MP(S(PA)), M(KN, Obj(<<MP(S(PB))>>))>>),
    Obj(<<M(KN, Arr(<<Obj(<<MP(S(PB))>>), One>>)), MP(S(PC))>>),
    Obj(<<MP(S(PA)), MP(S(PB))>>) }

\* Elements in which "manifest_path" holds something else.
OtherItems ==
  { Obj(<<MP(Null)>>),
    Obj(<<MP(One), MP(S(PA))>>),
    Obj(<<MP(Null), M(KN, S(PB))>>),
    Obj(<<MP(Obj(<<>>))>>),
    Obj(<<MP(Arr(<<S(PB)>>)), MP(S(PC))>>) }

Items == ShapedItems \cup OtherItems

Root(pre, pkgs, post) == Obj(pre \o <<M(PACKAGES, pkgs)>> \o post)

Sides ==
  { <<>>,
    <<M(KA, Arr(<<Obj(<<MP(S(PT))>>)>>))>>,
    <<M(KA, Obj(<<M(PACKAGES, Arr(<<Obj(<<MP(S(PT))>>)>>))>>))>> }

\* Documents shaped as the tool expects: a root object with one "packages"
\* key holding an array of objects with string-valued "manifest_path".
ShapedDocs ==
  {Root(<<>>, Arr(is), <<>>) : is \in SeqsUpTo(ShapedItems, MaxItems)}
  \cup {Root(pre, Arr(<<i>>), post) : pre \in Sides, post \in Sides, i \in ShapedItems}

\* Well-formed documents with no "packages" key at depth 1.
NoPackagesDocs ==
  {Obj(ms) : ms \in SeqsUpTo({M(KA, One), M(KA, S(PACKAGES)), MP(S(PT))}
                              \cup UNION {{M(KA, s[1].val), M(KN, s[1].val)} : s \in Sides \ {<<>>}}, 2)}
  \cup {Arr(<<Root(<<>>, Arr(<<Obj(<<MP(S(PT))>>)>>), <<>>)>>),
        S(PACKAGES), One,
        Arr(<<S(PACKAGES), Arr(<<Obj(<<MP(S(PT))>>)>>)>>)}

\* Other well-formed documents: non-string "manifest_path" values, a
\* "packages" value that is no array, a second "packages" key.
OtherDocs ==
  {Root(<<>>, Arr(is), <<>>) : is \in SeqsUpTo(Items, MaxItems) \ SeqsUpTo(ShapedItems, MaxItems)}
  \cup {Root(<<>>, v, post) : v \in {One, S(PA), Obj(<<MP(S(PA))>>)}, post \in Sides}
  \cup {Root(<<>>, Arr(<<i>>), <<M(PACKAGES, Arr(<<Obj(<<MP(S(PT))>>)>>))>>) : i \in Items}
  \cup {Root(<<>>, Arr(<<Arr(<<Obj(<<MP(S(PT))>>)>>), S(MANIFEST_PATH), S(PA), i>>), <<>>) : i \in ShapedItems}

\* What follows the `]` that closes the packages array.
Trails ==
  { <<>>,
    <<RBrace>>,
    <<Comma, LBrace>> \o Render(MP(S(PT)).val, Compact) \o <<RBrace, RBrack, RBrace>>,
    <<Comma>> \o RenderAll(<<MP(S(PT))>>, Compact, TRUE) \o <<RBrace, RBrack, RBrace>>,
    <<Comma, LBrace>> \o RenderAll(<<MP(S(PT))>>, Compact, TRUE) \o <<RBrace, RBrack, RBrace>>,
    <<Comma>> \o RenderAll(<<M(PACKAGES, Arr(<<Obj(<<MP(S(PT))>>)>>))>>, Compact, TRUE) \o <<RBrace>>,
    <<Comma, Quote, "x">>,
    <<Comma, Quote, "x", Backslash>> }

\* The text of a document up to and including the `]` of its packages array
\* (the document is Root(pre, Arr(is), <<>>): its last member is that array).
UpToClose(root, ws) ==
  LET t == Render(root, ws) IN SubSeq(t, 1, Len(t) - 1 - Len(ws.pad))

RawAlphabet == {LBrace, RBrace, LBrack, RBrack, Quote, Backslash, Colon, "a"}
RawTexts == SeqsUpTo(RawAlphabet, MaxLen)

NoDoc == Lit(<<>>)

\* input.kind: "shaped", "nopkg", "other" (well-formed documents, input.root
\* the tree, input.ws the layout), "trail" (input.root cut after the `]` of
\* its packages array, then input.trail) or "raw" (input.trail is the text).
DocInput(kind, root, ws) == [kind |-> kind, root |-> root, ws |-> ws, trail |-> <<>>]
TrailInput(root, ws, tr) == [kind |-> "trail", root |-> root, ws |-> ws, trail |-> tr]
RawInput(t) == [kind |-> "raw", root |-> NoDoc, ws |-> Compact, trail |-> t]

\* The buffer an input stands for.
TextOf(in) ==
  CASE in.kind = "raw" -> in.trail
    [] in.kind = "trail" -> UpToClose(in.root, in.ws) \o in.trail
    [] OTHER -> Render(in.root, in.ws)

TrailItems ==
  { Obj(<<>>),
    Obj(<<MP(S(PA))>>),
    Obj(<<MP(Null)>>),
    Obj(<<MP(Obj(<<>>))>>),
    Obj(<<MP(Arr(<<S(PB)>>)), MP(S(PC))>>) }
TrailRoots == {Root(<<>>, Arr(is), <<>>) : is \in SeqsUpTo(TrailItems, MaxItems)}

\* Malformed texts: the start of a document, up to the inside of the first
\* element of the packages array or to the value of its "manifest_path" key,
\* followed by any characters.
OpenItem == <<LBrace, Quote>> \o PACKAGES \o <<Quote, Colon, LBrack, LBrace>>
OpenValue == OpenItem \o <<Quote>> \o MANIFEST_PATH \o <<Quote, Colon>>
BrokenAlphabet == {LBrace, RBrace, RBrack, Quote}
BrokenTexts ==
  {pre \o t : pre \in {OpenItem, OpenValue}, t \in SeqsUpTo(BrokenAlphabet, MaxLen)}

Inputs ==
  {DocInput("shaped", d, ws) : d \in ShapedDocs, ws \in Layouts}
  \cup {DocInput("nopkg", d, ws) : d \in NoPackagesDocs, ws \in Layouts}
  \cup {DocInput("other", d, ws) : d \in OtherDocs, ws \in {Compact, Spaced}}
  \cup {TrailInput(d, Compact, tr) : d \in TrailRoots, tr \in Trails}
  \cup {RawInput(t) : t \in RawTexts \cup BrokenTexts}

\* What the environment answers: io "err" is a file that cannot be read or a
\* command that cannot be spawned; status is the command's exit status; out
\* and errout are the bytes of the file or of the command's two streams.
ErrTexts ==
  { <<>>, <<"e">>, <<"e", Newline>>, <<"e", Newline, "f", Newline>>, <<"e", BadByte>> }

GoodEnv(t) == [io |-> "ok", status |-> 0, out |-> t, errout |-> <<>>]
BadEnvs ==
  { [io |-> "err", status |-> 0, out |-> <<>>, errout |-> <<>>],
    [io |-> "ok", status |-> 0, out |-> <<LBrace, BadByte, RBrace>>, errout |-> <<>>] }
  \cup {[io |-> "ok", status |-> 1, out |-> o, errout |-> e] :
          o \in {<<>>, <<LBrace, RBrace>>}, e \in ErrTexts}

Idle ==
  /\ metadata = <<>>
  /\ err = <<>>
  /\ cs = 0
  /\ event = NoEvent
  /\ dp = 0 /\ tp_lvl = FALSE /\ pkg = FALSE /\ pkg_lst = FALSE
  /\ pkg_lst_itm = FALSE /\ mnfst = FALSE
  /\ dependencies = <<>>
  /\ printed = 0
  /\ stdout = <<>>
  /\ stderr = <<>>
  /\ code = -1
  /\ run = 1
  /\ prev = [events |-> <<>>, lines |-> <<>>, cs |-> 0, dependencies |-> <<>>]
  /\ events = <<>>

\* `cargo metadata` writes a shaped document without whitespace.
CargoInputs == {DocInput("shaped", d, Compact) : d \in ShapedDocs}

Init ==
  /\ \/ /\ arg = "file"
        /\ input \in Inputs
        /\ env = GoodEnv(TextOf(input))
     \/ /\ arg = "none"
        /\ input \in CargoInputs
        /\ env = GoodEnv(TextOf(input))
     \/ /\ arg \in {"file", "none"}
        /\ input = RawInput(<<>>)
        /\ env \in BadEnvs
  /\ pc = "main"
  /\ Idle

Next ==
  \/ RealMainAcquire
  \/ GetDependenciesEnter
  \/ ForNext
  \/ Match
  \/ Return
  \/ PrintDep
  \/ ExitOk
  \/ ExitErr

Spec == Init /\ [][Next]_vars

\* The texts on which termination is checked: every text over the raw
\* alphabet, the malformed documents, and the documents cargo writes.
LiveInputs ==
  {RawInput(t) : t \in RawTexts \cup BrokenTexts}
  \cup CargoInputs
  \cup {DocInput("nopkg", d, Spaced) : d \in NoPackagesDocs}

InitLive ==
  /\ \/ /\ arg = "file"
        /\ input \in LiveInputs
        /\ env = GoodEnv(TextOf(input))
     \/ /\ arg = "none"
        /\ input \in CargoInputs
        /\ env = GoodEnv(TextOf(input))
     \/ /\ arg \in {"file", "none"}
        /\ input = RawInput(<<>>)
        /\ env \in BadEnvs
  /\ pc = "main"
  /\ Idle

\* The process is sequential and nothing suspends it: whenever a step is
\* possible, one is taken.
SpecLive == InitLive /\ [][Next]_vars /\ WF_vars(Next)

\* Two calls of get_dependencies over one buffer, the process left out.
TwiceInputs ==
  {DocInput("other", Root(<<>>, Arr(is), <<>>), Compact) : is \in SeqsUpTo(Items, MaxItems)}
  \cup {DocInput("nopkg", d, Compact) : d \in NoPackagesDocs}
  \cup {RawInput(t) : t \in RawTexts}

InitTwice ==
  /\ arg = "file"
  /\ input \in TwiceInputs
  /\ env = GoodEnv(TextOf(input))
  /\ pc = "call"
  /\ metadata = env.out
  /\ err = <<>>
  /\ cs = 0
  /\ event = NoEvent
  /\ dp = 0 /\ tp_lvl = FALSE /\ pkg = FALSE /\ pkg_lst = FALSE
  /\ pkg_lst_itm = FALSE /\ mnfst = FALSE
  /\ dependencies = <<>>
  /\ printed = 0
  /\ stdout = <<>>
  /\ stderr = <<>>
  /\ code = -1
  /\ run = 1
  /\ prev = [events |-> <<>>, lines |-> <<>>, cs |-> 0, dependencies |-> <<>>]
  /\ events = <<>>

NextTwice ==
  \/ GetDependenciesEnter
  \/ ForNext
  \/ Match
  \/ CallAgain

SpecTwice == InitTwice /\ [][NextTwice]_vars

(***************************************************************************)
(* Reference definitions: what a document holds, read off its tree.        *)
(***************************************************************************)
Last(s) == s[Len(s)]
IsPrefix(s, t) == Len(s) <= Len(t) /\ SubSeq(t, 1, Len(s)) = s
Returned == pc \in {"ret", "print", "exit"} /\ code # 101

RECURSIVE ManifestStrings(_)
ManifestStrings(ms) ==
  IF ms = <<>> THEN <<>>
  ELSE (IF Head(ms).key = MANIFEST_PATH /\ Head(ms).val.k = "str"
          THEN <<Head(ms).val.s>> ELSE <<>>)
       \o ManifestStrings(Tail(ms))

RECURSIVE ItemStrings(_)
ItemStrings(es) ==
  IF es = <<>> THEN <<>>
  ELSE (IF Head(es).val.k = "obj" THEN ManifestStrings(Head(es).val.c) ELSE <<>>)
       \o ItemStrings(Tail(es))

HasPackagesKey(root) ==
  root.k = "obj" /\ \E i \in 1..Len(root.c) : root.c[i].key = PACKAGES

PackagesValue(root) ==
  root.c[CHOOSE i \in 1..Len(root.c) :
           /\ root.c[i].key = PACKAGES
           /\ \A j \in 1..(i - 1) : root.c[j].key # PACKAGES].val

\* The "manifest_path" string values that are direct members of the elements
\* of the array at the root-level "packages" key, in document order.
Expected(root) ==
  IF ~HasPackagesKey(root) THEN <<>>
  ELSE IF PackagesValue(root).k # "arr" THEN <<>>
  ELSE ItemStrings(PackagesValue(root).c)

RECURSIVE BackslashesBefore(_, _)
BackslashesBefore(t, k) ==
  IF k > 1 /\ t[k - 1] = Backslash THEN 1 + BackslashesBefore(t, k - 1) ELSE 0

\* Walking a literal from the character after its opening quote at position
\* q: whether an unescaped quote closes it before the text ends.
RECURSIVE Closes(_, _)
Closes(src, q) ==
  IF q >= Len(src) THEN FALSE
  ELSE IF src[q + 1] = Backslash THEN Closes(src, q + 2)
  ELSE IF src[q + 1] = Quote THEN TRUE
  ELSE Closes(src, q + 1)

\* The next character at or after the cursor that starts a token, 0 if none.
RECURSIVE TokenStart(_, _)
TokenStart(src, i) ==
  IF i >= Len(src) THEN 0
  ELSE IF src[i + 1] \in {LBrace, RBrace, LBrack, RBrack, Quote} THEN i + 1
  ELSE TokenStart(src, i + 1)

AtUnclosedLiteral(src, i) ==
  LET q == TokenStart(src, i) IN q # 0 /\ src[q] = Quote /\ ~Closes(src, q)

RECURSIVE Count(_, _)
Count(es, types) ==
  IF es = <<>> THEN 0
  ELSE (IF Head(es).type \in types THEN 1 ELSE 0) + Count(Tail(es), types)

(***************************************************************************)
(* The claims                                                              *)
(***************************************************************************)

\* C1: for every well-formed document shaped as the tool expects, in any
\* legal layout, get_dependencies returns exactly the "manifest_path" string
\* values of the elements of the packages array, in document order,
\* duplicates kept, raw.
C1_ShapedDocumentResult ==
  (input.kind = "shaped" /\ pc \in {"ret", "print", "exit"})
    => (code # 101 /\ dependencies = Expected(input.root))

\* C2: on a successful run standard output holds exactly the extracted
\* strings, one line each, in extraction order, and no other line.
C2_StdoutIsTheResult ==
  (pc = "exit" /\ code = 0)
    => stdout = [i \in 1..Len(dependencies) |-> DepLine(dependencies[i])]

\* C3: for a document D well-formed up to the `]` closing the root-level
\* packages array and any trailing text T, get_dependencies(D \o T) returns
\* what get_dependencies(D) returns.
C3_TrailIgnored ==
  (input.kind = "trail" /\ Returned)
    => dependencies
         = get_dependencies(UpToClose(input.root, input.ws)).s.dependencies

\* C4 as claimed: when awaiting_value (mnfst) is set, it is false after the
\* very next event is consumed, whatever that event is, and nothing is
\* appended unless that event is a string value.
C4_ClearedByAnyEvent ==
  [][(pc = "match" /\ mnfst)
       => /\ ~mnfst'
          /\ (event.type # "Str" => dependencies' = dependencies)]_vars

\* C4, amended: mnfst is set only while the last consumed event is
\* Entry("manifest_path"); the next event clears it unless it is itself an
\* Entry("manifest_path"), which leaves it set; nothing is appended unless the
\* next event is a string value.
C4_ClearedByNextEvent ==
  /\ [](mnfst => (pkg_lst_itm /\ events # <<>> /\ Last(events) = Entry(MANIFEST_PATH)))
  /\ [][(pc = "match" /\ mnfst)
          => /\ mnfst' = (event = Entry(MANIFEST_PATH))
             /\ (event.type # "Str" => dependencies' = dependencies)
             /\ (event.type = "Str" => dependencies' = Append(dependencies, event.text))]_vars

\* C4 witness: a "manifest_path" key was followed by `}` (its value was no
\* string); the flag is clear again and nothing was captured.
C4_Witness ==
  /\ pc = "next"
  /\ Len(events) >= 2
  /\ events[Len(events) - 1] = Entry(MANIFEST_PATH)
  /\ Last(events) = ExitObj
  /\ ~mnfst
  /\ dependencies = <<>>

\* C5: at a string literal that is never closed, next() returns None: no
\* panic, no event for the literal, no event after it.
C5_UnclosedLiteralEndsSilently ==
  (pc = "next" /\ AtUnclosedLiteral(metadata, cs))
    => /\ ScannerNext(metadata, cs).ret = "None"
       /\ ScannerNext(metadata, ScannerNext(metadata, cs).cs).ret = "None"

\* C6: the text of every string event is the raw content of its literal,
\* backslashes and escaped characters kept; a quote closes the literal only
\* when it is not escaped, so every quote inside the text follows an odd run
\* of backslashes and the closing quote an even one; what is captured is such
\* a text, unchanged.
C6_RawLiteral ==
  /\ (pc = "match" /\ event.type \in {"Str", "Entry"})
       => /\ cs - Len(event.text) - 1 >= 1
          /\ metadata[cs - Len(event.text) - 1] = Quote
          /\ event.text = SubSeq(metadata, cs - Len(event.text), cs - 1)
          /\ metadata[cs] = Quote
          /\ BackslashesBefore(event.text, Len(event.text) + 1) % 2 = 0
          /\ \A k \in 1..Len(event.text) :
               event.text[k] = Quote => BackslashesBefore(event.text, k) % 2 = 1
  /\ \A i \in 1..Len(dependencies) :
       \E j \in 1..Len(events) :
         events[j].type = "Str" /\ events[j].text = dependencies[i]

\* C6 witness: the value written "a\"b" was captured as the four characters
\* a \ " b.
C6_Witness ==
  /\ Returned
  /\ \E i \in 1..Len(dependencies) :
       dependencies[i] = <<"a", Backslash, Quote, "b">>

\* C7: a well-formed document with no "packages" key at depth 1 of the root
\* object gives the empty result, no failure, and exit code 0.
C7_NoPackagesNoResult ==
  input.kind = "nopkg"
    => /\ code \in {-1, 0}
       /\ stderr = <<>>
       /\ dependencies = <<>>
       /\ (pc = "exit" => code = 0)

\* C7 witness: such a document that holds a "packages" key deeper down has
\* been scanned to its end and the process has exited.
C7_Witness ==
  /\ input.kind = "nopkg"
  /\ pc = "exit"
  /\ code = 0
  /\ \E j \in 1..Len(events) : events[j] = Entry(PACKAGES)

\* Whether the environment makes the acquisition fail.
AcquisitionFails ==
  \/ env.io = "err"
  \/ (arg = "none" /\ env.status # 0)
  \/ \E i \in 1..Len(env.out) : env.out[i] = BadByte

\* C8 as claimed: a failed acquisition is propagated before get_dependencies
\* is called; nothing is scanned or written to standard output, exactly one
\* line is written to standard error and the exit code is not 0.
C8_OneErrorLine ==
  AcquisitionFails
    => /\ pc \in {"main", "fail", "exit"}
       /\ events = <<>> /\ cs = 0 /\ stdout = <<>>
       /\ (pc = "exit" => (StreamLines(stderr) = 1 /\ code # 0))

\* C8, amended: as claimed, but what is written to standard error is the
\* error's text followed by a newline, once: one line unless the text itself
\* holds line breaks, as the captured stderr of a failed command may.
C8_OneErrorReport ==
  AcquisitionFails
    => /\ pc \in {"main", "fail", "exit"}
       /\ events = <<>> /\ cs = 0 /\ stdout = <<>> /\ metadata = <<>>
       /\ (pc # "exit" => (stderr = <<>> /\ code = -1))
       /\ (pc = "exit"
             => /\ stderr = <<err \o <<Newline>>>>
                /\ StreamLines(stderr) = 1 + CountNewlines(err)
                /\ code = 1)

\* C8 witness: the command exited non-zero and its error text was reported.
C8_Witness ==
  /\ arg = "none"
  /\ env.status # 0
  /\ pc = "exit"
  /\ code = 1
  /\ stderr = <<err \o <<Newline>>>>

\* C9: a second call of get_dependencies over the same buffer starts from
\* fresh locals, consumes the same events, prints the same lines and returns
\* the same vector; the buffer is never modified.
C9_SecondRunIdentical ==
  /\ metadata = env.out
  /\ (run = 2 /\ pc \in {"next", "match", "ret"})
       => /\ IsPrefix(events, prev.events)
          /\ IsPrefix(stdout, prev.lines \o prev.lines)
          /\ Len(stdout) >= Len(prev.lines)
          /\ IsPrefix(dependencies, prev.dependencies)
          /\ (events = <<>> /\ pc = "next" => (Locals = Fresh /\ cs = 0))
  /\ (run = 2 /\ pc = "ret")
       => /\ events = prev.events
          /\ stdout = prev.lines \o prev.lines
          /\ dependencies = prev.dependencies
          /\ cs = prev.cs

\* C9 witness: the second call has returned a non-empty vector.
C9_Witness ==
  /\ run = 2
  /\ pc = "ret"
  /\ dependencies # <<>>

\* C10: dp is the number of EnterObj/EnterList events consumed minus the
\* number of ExitObj/ExitList events consumed, whatever the flags.
C10_DepthIsNetNesting ==
  pc \in {"next", "match", "ret"}
    => dp = Count(events, {"EnterObj", "EnterList"})
            - Count(events, {"ExitObj", "ExitList"})

\* The nesting depth the consumed events stand for.
Nesting(es) ==
  Count(es, {"EnterObj", "EnterList"}) - Count(es, {"ExitObj", "ExitList"})

InLoop == pc \in {"next", "match"}
WellFormed == input.kind \in {"shaped", "nopkg", "other"}

\* C11: pkg_lst_itm is true exactly while the scan is inside one object
\* element of the packages array: set by the `{` opening an element at depth
\* 2, cleared by the `}` closing it, also when that `}` follows a
\* "manifest_path" key whose value was no string.  On a well-formed document
\* the flag is therefore set only at nesting depth 3 or deeper.
C11_ItemFlagFollowsElement ==
  (WellFormed /\ InLoop /\ pkg_lst_itm) => Nesting(events) >= 3

\* C12: the packages-list flag is set only by an EnterList at depth 1 that
\* is the event right after Entry("packages"); an array of another key is
\* never taken for the packages array.
C12_ListFollowsPackagesKey ==
  (InLoop /\ pkg_lst)
    => \E j \in 1..(Len(events) - 1) :
         /\ events[j] = Entry(PACKAGES)
         /\ events[j + 1] = EnterList
         /\ Nesting(SubSeq(events, 1, j)) = 1

\* C13: a closed string literal is emitted as Entry exactly when the
\* character right after its closing quote is `:`, and as Str otherwise (at
\* the end of the text, or when whitespace stands before the colon); the
\* cursor stays on the closing quote, the peeked character is not consumed.
C13_EntryIffColonFollows ==
  (pc = "match" /\ event.type \in {"Str", "Entry"})
    => /\ cs >= 2
       /\ metadata[cs] = Quote
       /\ event.type = "Entry" <=> (cs < Len(metadata) /\ metadata[cs + 1] = Colon)
       /\ (cs < Len(metadata) /\ metadata[cs + 1] \in {LBrace, RBrace, LBrack, RBrack}
             => ScannerNext(metadata, cs).cs = cs + 1)

\* C13 witness: a key written with a space before its colon came out as Str.
C13_Witness ==
  /\ pc = "match"
  /\ event = Str(PACKAGES)
  /\ cs + 2 <= Len(metadata)
  /\ metadata[cs + 1] = Space
  /\ metadata[cs + 2] = Colon

\* The position of the quote that closes the literal opened by the quote at
\* position q, 0 if the literal is never closed.
RECURSIVE ClosePos(_, _)
ClosePos(src, q) ==
  IF q >= Len(src) THEN 0
  ELSE IF src[q + 1] = Backslash THEN ClosePos(src, q + 2)
  ELSE IF src[q + 1] = Quote THEN q + 1
  ELSE ClosePos(src, q + 1)

StructuralEvent(c) ==
  CASE c = LBrace -> EnterObj
    [] c = RBrace -> ExitObj
    [] c = LBrack -> EnterList
    [] c = RBrack -> ExitList

\* The events a text stands for, read from character i + 1 on: one per
\* bracket or brace outside a literal, one per closed literal, in text order;
\* nothing for any other character, nothing from an unclosed literal on.
RECURSIVE TextEvents(_, _)
TextEvents(src, i) ==
  LET p == TokenStart(src, i) IN
  IF p = 0 THEN <<>>
  ELSE IF src[p] # Quote THEN <<StructuralEvent(src[p])>> \o TextEvents(src, p)
  ELSE LET e == ClosePos(src, p) IN
       IF e = 0 THEN <<>>
       ELSE <<[type |-> IF e < Len(src) /\ src[e + 1] = Colon THEN "Entry" ELSE "Str",
               text |-> SubSeq(src, p + 1, e - 1)]>>
            \o TextEvents(src, e)

\* C14: the scanner's events are exactly the events of the text: what has
\* been pulled so far is a prefix of them, and when next() has returned None
\* (or the scan was aborted) all of them have been pulled.
C14_OneEventPerToken ==
  /\ pc = "match" => IsPrefix(Append(events, event), TextEvents(metadata, 0))
  /\ (pc \in {"ret", "print", "exit"} /\ event = NoEvent)
       => events = TextEvents(metadata, 0)

\* C14 witness: a text with a brace inside a literal and characters that
\* start no token has been scanned to its end.
C14_Witness ==
  /\ pc = "ret"
  /\ event = NoEvent
  /\ \E j \in 1..Len(events) :
       events[j].type = "Str" /\ \E k \in 1..Len(events[j].text) : events[j].text[k] = LBrace
  /\ \E k \in 1..Len(metadata) : metadata[k] \in {Colon, "a"}
  /\ Len(events) >= 2


\* C15: on every text the extractor loop ends (by the end of the stream, the
\* early break or the scanner's panic) after finitely many events; a call of
\* next() that yields an event has moved the cursor forward by at least one
\* character, the cursor never moves backwards and never passes the end of
\* the buffer, and a call made on an exhausted buffer yields None and leaves
\* the cursor at the end.
C15_LoopEnds ==
  /\ [](cs <= Len(metadata) /\ Len(events) <= cs)
  /\ [][cs' >= cs]_vars
  /\ [][(pc = "next" /\ pc' = "match") => cs' > cs]_vars
  /\ [][(pc = "next" /\ cs = Len(metadata)) => (pc' = "ret" /\ cs' = cs)]_vars
  /\ (pc = "call") ~> (pc \in {"ret", "exit"})

\* The loop has ended at the end of the stream of a text whose last
\* character is a token, after at least three events.
C15_Witness ==
  /\ pc = "ret"
  /\ event = NoEvent
  /\ Len(events) >= 3
  /\ cs = Len(metadata)
  /\ Last(metadata) \in {RBrace, RBrack, Quote}

\* C16: for every well-formed document of any shape, every string of the
\* result is the value of a "manifest_path" key that is a direct member of
\* an object that is a direct element of the array at the root-level
\* "packages" key.
C16_OnlyPackageManifests ==
  (WellFormed /\ Returned)
    => \A i \in 1..Len(dependencies) :
         \E j \in 1..Len(Expected(input.root)) :
           dependencies[i] = Expected(input.root)[j]

FlagsNested ==
  /\ mnfst => pkg_lst_itm
  /\ pkg_lst_itm => pkg_lst
  /\ pkg_lst => pkg
  /\ pkg => tp_lvl
  /\ mnfst => dp = 3

\* The state in which the arm of lines 140-147 prints its last line and
\* breaks out of the loop.
AtBreak == pc = "ret" /\ event = ExitList

\* C17: in every state reached inside the extractor loop, the state of the
\* breaking arm included, mnfst implies pkg_lst_itm, pkg_lst_itm implies
\* pkg_lst, pkg_lst implies pkg, pkg implies tp_lvl and mnfst implies
\* dp = 3; tp_lvl is never cleared once set.
C17_FlagsNested ==
  /\ []((InLoop \/ AtBreak) => FlagsNested)
  /\ [][tp_lvl => tp_lvl']_vars

\* C17, amended: the nesting holds whenever an event is fetched or matched,
\* and in the state of the breaking arm all of it holds but
\* "pkg_lst_itm implies pkg_lst"; tp_lvl is never cleared once set.
C17_FlagsNestedUntilBreak ==
  /\ [](InLoop => FlagsNested)
  /\ [](AtBreak => /\ ~mnfst
                   /\ pkg_lst => pkg
                   /\ pkg => tp_lvl
                   /\ tp_lvl)
  /\ [][tp_lvl => tp_lvl']_vars

\* C17 witness: a value is about to be matched with every flag set.
C17_Witness ==
  /\ pc = "match"
  /\ mnfst /\ pkg_lst_itm /\ pkg_lst /\ pkg /\ tp_lvl
  /\ dp = 3
  /\ event.type = "Str"

\* The breaking arm has cleared pkg_lst under a set pkg_lst_itm.
C17_BreakWitness == AtBreak /\ pkg_lst_itm /\ ~pkg_lst

====
